---- MODULE Spec2Model ----
(***************************************************************************)
(* Model of esp8266_uart.py: the AT transaction engine ESP8266._exec, the  *)
(* line reader UartTimeOut.readline, the operations sequenced on top of    *)
(* them and the response decoders.  Bytes are one-character strings; byte  *)
(* strings and text are sequences of them.                                 *)
(***************************************************************************)
EXTENDS Integers, Sequences, FiniteSets, TLC

VARIABLES
    rx,         \* bytes pending in the UART receive buffer
    tx,         \* every write made to the UART, in order
    emitted,    \* number of chunks the device has sent so far
    calls,      \* number of direct _exec calls started so far
    pc,         \* position of the running _exec call
    acc,        \* its match token
    ticks,      \* its remaining attempt budget
    result,     \* its payload lines
    ok,         \* its success flag
    data,       \* readline's accumulated bytes
    linesRead,  \* history: every buffer readline returned to this call
    consumed,   \* history: number of bytes this call took from the UART
    op,         \* the public operation in progress
    opStep,     \* how many of its transactions have been started
    opArgs,     \* its arguments
    opRet,      \* its return value
    fault,      \* whether it raised an exception
    dPc,        \* decoders: "input" before decoding, "decoded" after
    dOk,        \* decoders: the success flag handed to them
    dLines,     \* decoders: the payload lines handed to them
    dOut        \* decoders: what each decoder returned

engVars == <<rx, tx, emitted, calls, pc, acc, ticks, result, ok, data,
             linesRead, consumed>>
opVars == <<op, opStep, opArgs, opRet, fault>>
decVars == <<dPc, dOk, dLines, dOut>>
vars == <<engVars, opVars, decVars>>

-----------------------------------------------------------------------------
(* Bounds of the model *)

MaxChunks == 3
MaxCalls == 2
MaxEmptyReads == 1

-----------------------------------------------------------------------------
(* Byte strings *)

CR == "\r"
LF == "\n"
WS == {" ", "\t", CR, LF}

RECURSIVE Rstrip(_)
Rstrip(s) ==
    IF s = <<>> THEN <<>>
    ELSE IF s[Len(s)] \in WS THEN Rstrip(SubSeq(s, 1, Len(s) - 1))
    ELSE s

RECURSIVE Flatten(_)
Flatten(ls) ==
    IF ls = <<>> THEN <<>> ELSE Head(ls) \o Flatten(Tail(ls))

OK == <<"O", "K">>
READY == <<"r", "d", "y">>
NoToken == <<"None">>

Tokens == {NoToken, OK, READY}

OkLine == OK \o <<CR, LF>>
ReadyLine == READY \o <<CR, LF>>
PayloadLine == <<"+", "p", CR, LF>>
OkPartial == OK
Chunks == {OkLine, ReadyLine, PayloadLine, OkPartial}

Timeouts == {50, 100, 200, 300}

-----------------------------------------------------------------------------
(* ESP8266._exec *)

DELTA_WAIT == 100

TicksNoMinimum(timeout) == timeout \div DELTA_WAIT

Ticks(timeout) ==
    LET t == timeout \div DELTA_WAIT IN IF t < 1 THEN 1 ELSE t

IsEmptyReadNever(line) == FALSE

IsEmptyRead(line) == line = <<>>

IsSentinelNoStrip(line) == line = OK

IsSentinel(line) == Rstrip(line) = OK

IsMatchNever(a, line) == FALSE

IsMatchOrSentinel(a, line) ==
    \/ Rstrip(line) = OK
    \/ a # NoToken /\ a # <<>> /\ Rstrip(line) = a

IsMatch(a, line) == a # NoToken /\ a # <<>> /\ Rstrip(line) = a

\* what _exec does with the buffer readline returned
Handle(line) ==
    /\ linesRead' = Append(linesRead, line)
    /\ data' = <<>>
    /\ IF IsEmptyRead(line)
       THEN /\ pc' = "loop"
            /\ UNCHANGED <<ticks, result, ok>>
       ELSE /\ ok' = (ok \/ IsSentinel(line))
            /\ IF IsMatch(acc, line)
               THEN /\ pc' = "done"
                    /\ UNCHANGED <<ticks, result>>
               ELSE /\ result' = Append(result, line)
                    /\ ticks' = ticks - 1
                    /\ pc' = "loop"

ExecStartDrain(cmd, a, timeout) ==
    /\ tx' = Append(tx, <<cmd, CR, LF>>)
    /\ acc' = a
    /\ result' = <<>>
    /\ ok' = FALSE
    /\ ticks' = Ticks(timeout)
    /\ pc' = "loop"
    /\ data' = <<>>
    /\ linesRead' = <<>>
    /\ consumed' = 0
    /\ rx' = <<>>
    /\ UNCHANGED emitted

\* entry of _exec up to the start of its loop
ExecStart(cmd, a, timeout) ==
    /\ tx' = Append(tx, <<cmd, CR, LF>>)
    /\ acc' = a
    /\ result' = <<>>
    /\ ok' = FALSE
    /\ ticks' = Ticks(timeout)
    /\ pc' = "loop"
    /\ data' = <<>>
    /\ linesRead' = <<>>
    /\ consumed' = 0
    /\ UNCHANGED <<rx, emitted>>

LoopSleep ==
    /\ pc = "loop"
    /\ ticks > 0
    /\ rx = <<>>
    /\ ticks' = ticks - 1
    /\ UNCHANGED <<rx, tx, emitted, calls, pc, acc, result, ok, data,
                   linesRead, consumed>>
    /\ UNCHANGED <<opVars, decVars>>

LoopAny ==
    /\ pc = "loop"
    /\ ticks > 0
    /\ rx # <<>>
    /\ pc' = "readline"
    /\ data' = <<>>
    /\ UNCHANGED <<rx, tx, emitted, calls, acc, ticks, result, ok,
                   linesRead, consumed>>
    /\ UNCHANGED <<opVars, decVars>>

LoopExit ==
    /\ pc = "loop"
    /\ ticks = 0
    /\ pc' = "done"
    /\ UNCHANGED <<rx, tx, emitted, calls, acc, ticks, result, ok, data,
                   linesRead, consumed>>
    /\ UNCHANGED <<opVars, decVars>>

(* UartTimeOut.readline *)

EmptyReads(ls) == Len(SelectSeq(ls, LAMBDA l : l = <<>>))

ReadByte ==
    /\ pc = "readline"
    /\ rx # <<>>
    /\ rx' = Tail(rx)
    /\ consumed' = consumed + 1
    /\ IF Head(rx) = LF
       THEN Handle(Append(data, Head(rx)))
       ELSE /\ data' = Append(data, Head(rx))
            /\ UNCHANGED <<pc, ticks, result, ok, linesRead>>
    /\ UNCHANGED <<tx, emitted, calls, acc>>
    /\ UNCHANGED <<opVars, decVars>>

ReadTimeout ==
    /\ pc = "readline"
    /\ data # <<>> \/ EmptyReads(linesRead) < MaxEmptyReads
    /\ Handle(data)
    /\ UNCHANGED <<rx, tx, emitted, calls, acc, consumed>>
    /\ UNCHANGED <<opVars, decVars>>

(* The device *)

Emit(c) ==
    /\ emitted < MaxChunks
    /\ emitted' = emitted + 1
    /\ rx' = rx \o c
    /\ UNCHANGED <<tx, calls, pc, acc, ticks, result, ok, data, linesRead,
                   consumed>>
    /\ UNCHANGED <<opVars, decVars>>

(* A caller of _exec: test, restart, disconnect, setApConfig, ... *)

Call(cmd, a, timeout) ==
    /\ pc \in {"idle", "done"}
    /\ calls < MaxCalls
    /\ calls' = calls + 1
    /\ ExecStart(cmd, a, timeout)
    /\ UNCHANGED <<opVars, decVars>>

EngInit ==
    /\ rx = <<>>
    /\ tx = <<>>
    /\ emitted = 0
    /\ calls = 0
    /\ pc = "idle"
    /\ acc = NoToken
    /\ ticks = 0
    /\ result = <<>>
    /\ ok = FALSE
    /\ data = <<>>
    /\ linesRead = <<>>
    /\ consumed = 0

OpInit ==
    /\ op = "none"
    /\ opStep = 0
    /\ opArgs = <<>>
    /\ opRet = FALSE
    /\ fault = FALSE

DecInit ==
    /\ dPc = "off"
    /\ dOk = FALSE
    /\ dLines = <<>>
    /\ dOut = <<>>

Init == EngInit /\ OpInit /\ DecInit

Next ==
    \/ \E a \in Tokens, t \in Timeouts : Call(<<"AT">>, a, t)
    \/ LoopSleep
    \/ LoopAny
    \/ LoopExit
    \/ ReadByte
    \/ ReadTimeout
    \/ \E c \in Chunks : Emit(c)

Spec == Init /\ [][Next]_vars

(* Transactions one after another on the same UART, as any two public    *)
(* operations issue them.  opArgs keeps, as history, the deadline handed  *)
(* to the running call and the bytes that were pending when it started.   *)

Transaction(a, timeout) ==
    /\ pc \in {"idle", "done"}
    /\ calls < MaxCalls
    /\ calls' = calls + 1
    /\ ExecStart(<<"AT">>, a, timeout)
    /\ op' = "exec"
    /\ opArgs' = [timeout |-> timeout, pending |-> rx]
    /\ UNCHANGED <<opStep, opRet, fault, decVars>>

NextSeq ==
    \/ \E a \in {NoToken, OK}, t \in {50, 250} : Transaction(a, t)
    \/ LoopSleep
    \/ LoopAny
    \/ LoopExit
    \/ ReadByte
    \/ ReadTimeout
    \/ \E c \in {OkLine, PayloadLine} : Emit(c)

SpecSeq == Init /\ [][NextSeq]_vars

-----------------------------------------------------------------------------
(* ESP8266.startServer *)

ConnCounts == {0, 1, 6}
TcpTimeouts == {-1, 30}
DefaultTimeout == 2000

\* the chained comparison 1 > maxAllowedConnections > 5
BadMaxConn(m) == 1 > m /\ m > 5

\* the chained comparison 0 > tcpTimeout > 7200
BadTcpTimeout(t) == 0 > t /\ t > 7200

ServerCmd(k, args) ==
    CASE k = 1 -> <<"AT+CIPMUX=1">>
      [] k = 2 -> <<"AT+CIPSERVERMAXCONN=", args.maxConn>>
      [] k = 3 -> <<"AT+CIPSERVER=1,", args.port>>
      [] k = 4 -> <<"AT+CIPSTO=", args.tcpTimeout>>

StartServer(m, t) ==
    /\ op = "none"
    /\ pc = "idle"
    /\ opArgs' = [port |-> 80, maxConn |-> m, tcpTimeout |-> t]
    /\ IF BadMaxConn(m) \/ BadTcpTimeout(t)
       THEN /\ fault' = TRUE
            /\ op' = "raised"
            /\ UNCHANGED <<engVars, opStep, opRet>>
       ELSE /\ op' = "startServer"
            /\ opStep' = 1
            /\ ExecStart(ServerCmd(1, opArgs'), OK, DefaultTimeout)
            /\ UNCHANGED <<calls, opRet, fault>>
    /\ UNCHANGED decVars

\* the next transaction of startServer; its result is that of the third
ServerStep ==
    /\ op = "startServer"
    /\ pc = "done"
    /\ opStep < 4
    /\ opStep' = opStep + 1
    /\ opRet' = IF opStep = 3 THEN ok ELSE opRet
    /\ ExecStart(ServerCmd(opStep + 1, opArgs), OK, DefaultTimeout)
    /\ UNCHANGED <<calls, op, opArgs, fault, decVars>>

ServerReturn ==
    /\ op = "startServer"
    /\ pc = "done"
    /\ opStep = 4
    /\ op' = "returned"
    /\ UNCHANGED <<engVars, opStep, opArgs, opRet, fault, decVars>>

NextServer ==
    \/ \E m \in ConnCounts, t \in TcpTimeouts : StartServer(m, t)
    \/ ServerStep
    \/ ServerReturn
    \/ LoopSleep
    \/ LoopAny
    \/ LoopExit
    \/ ReadByte
    \/ ReadTimeout
    \/ Emit(OkLine)

SpecServer == Init /\ [][NextServer]_vars

-----------------------------------------------------------------------------
(* Text: str.find, str.split, str.replace, int() *)

PyNone == NoToken

\* s.find(sub): the 0-based index of the first occurrence, -1 without one
Find(s, sub) ==
    LET hits == {i \in 1..(Len(s) + 1) :
                    /\ i + Len(sub) - 1 <= Len(s)
                    /\ SubSeq(s, i, i + Len(sub) - 1) = sub}
    IN  IF hits = {} THEN -1
        ELSE (CHOOSE x \in hits : \A y \in hits : x <= y) - 1

\* s.replace(ch, '')
Remove(s, ch) == SelectSeq(s, LAMBDA c : c # ch)

StripCRLF(s) == Remove(Remove(s, CR), LF)

\* s.split(sub, n); n = -1 splits at every occurrence
RECURSIVE PySplit(_, _, _)
PySplit(s, sub, n) ==
    LET i == Find(s, sub)
    IN  IF n = 0 \/ i = -1 THEN <<s>>
        ELSE <<SubSeq(s, 1, i)>>
             \o PySplit(SubSeq(s, i + Len(sub) + 1, Len(s)), sub, n - 1)

RECURSIVE Lstrip(_)
Lstrip(s) ==
    IF s = <<>> THEN <<>>
    ELSE IF s[1] \in WS THEN Lstrip(Tail(s))
    ELSE s

Strip(s) == Lstrip(Rstrip(s))

Digits == {"0", "1", "2", "3", "4", "5", "6", "7", "8", "9"}

DigitVal(c) ==
    CASE c = "0" -> 0 [] c = "1" -> 1 [] c = "2" -> 2 [] c = "3" -> 3
      [] c = "4" -> 4 [] c = "5" -> 5 [] c = "6" -> 6 [] c = "7" -> 7
      [] c = "8" -> 8 [] c = "9" -> 9

RECURSIVE DigitsVal(_)
DigitsVal(s) ==
    IF s = <<>> THEN 0
    ELSE 10 * DigitsVal(SubSeq(s, 1, Len(s) - 1)) + DigitVal(s[Len(s)])

\* int(s) of a text: [ok, val]; ok is false where int raises ValueError
IntOf(s) ==
    LET t == Strip(s)
        signed == t # <<>> /\ t[1] \in {"-", "+"}
        body == IF signed THEN Tail(t) ELSE t
    IN  IF body # <<>> /\ \A i \in 1..Len(body) : body[i] \in Digits
        THEN [ok |-> TRUE,
              val |-> IF signed /\ t[1] = "-" THEN 0 - DigitsVal(body)
                      ELSE DigitsVal(body)]
        ELSE [ok |-> FALSE, val |-> 0]

(* What a decoder returns *)

None == [kind |-> "None"]
PyFalse == [kind |-> "False"]
Val(v) == [kind |-> "value", val |-> v]
Fault(e) == [kind |-> "fault", exc |-> e]

\* int(fields[k - 1])
IntField(fields, k) ==
    IF Len(fields) < k THEN Fault("IndexError")
    ELSE IF IntOf(fields[k]).ok THEN Val(IntOf(fields[k]).val)
    ELSE Fault("ValueError")

-----------------------------------------------------------------------------
(* Texts of the protocol *)

COLON == <<":">>
COMMA == <<",">>
T_NoAP == <<"N", "o", " ", "A", "P">>
T_ERR == <<"E", "R", "R">>
T_timeout == <<"+", "t", "i", "m", "e", "o", "u", "t">>
Q_SLEEP == <<"+", "S", "L", "E", "E", "P", ":">>
Q_CWMODE_CUR ==
    <<"+", "C", "W", "M", "O", "D", "E", "_", "C", "U", "R", ":">>
Q_CWJAP_CUR == <<"+", "C", "W", "J", "A", "P", "_", "C", "U", "R", ":">>
Q_CWLAP == <<"+", "C", "W", "L", "A", "P", ":">>
Q_CIPAPMAC_CUR ==
    <<"+", "C", "I", "P", "A", "P", "M", "A", "C", "_", "C", "U", "R", ":">>

-----------------------------------------------------------------------------
(* ESP8266._parseMode, getSleepMode, _parseConnection, ping, getApMac *)

RECURSIVE ParseModeLines(_, _)
ParseModeLines(ls, q) ==
    IF ls = <<>> THEN None
    ELSE IF Find(Head(ls), q) = 0
         THEN IntField(PySplit(Head(ls), COLON, -1), 2)
         ELSE ParseModeLines(Tail(ls), q)

ParseMode(s, response, q) ==
    IF ~s THEN None ELSE ParseModeLines(response, q)

RECURSIVE SleepLines(_)
SleepLines(ls) ==
    IF ls = <<>> THEN None
    ELSE IF Find(StripCRLF(Head(ls)), Q_SLEEP) = 0
         THEN IntField(PySplit(StripCRLF(Head(ls)), COLON, -1), 2)
         ELSE SleepLines(Tail(ls))

\* getSleepMode never looks at the success flag
GetSleepMode(s, response) == SleepLines(response)

\* the record built from details = conn.split(",")
ConnRecord(d) ==
    IF Len(d) < 3 THEN Fault("IndexError")
    ELSE IF ~IntOf(d[3]).ok THEN Fault("ValueError")
    ELSE IF Len(d) < 4 THEN Fault("IndexError")
    ELSE IF ~IntOf(d[4]).ok THEN Fault("ValueError")
    ELSE Val([ssid |-> d[1], bssid |-> d[2],
              channel |-> IntOf(d[3]).val, rssi |-> IntOf(d[4]).val])

RECURSIVE ConnLines(_, _)
ConnLines(ls, q) ==
    IF ls = <<>> THEN None
    ELSE IF Find(Head(ls), T_NoAP) > -1 THEN PyFalse
    ELSE IF Find(Head(ls), q) = 0
         THEN ConnRecord(PySplit(PySplit(StripCRLF(Head(ls)), COLON, 1)[2],
                                 COMMA, -1))
         ELSE ConnLines(Tail(ls), q)

ParseConnection(s, response, q) ==
    IF ~s THEN PyFalse ELSE ConnLines(response, q)

RECURSIVE PingLines(_)
PingLines(ls) ==
    IF ls = <<>> THEN None
    ELSE LET line == StripCRLF(Head(ls))
         IN  IF Find(line, T_ERR) > -1 THEN None
             ELSE IF Find(line, T_timeout) > -1 THEN None
             ELSE IF Find(line, <<"+">>) = 0
                  THEN IntField(<<Remove(line, "+")>>, 1)
                  ELSE PingLines(Tail(ls))

\* ping never looks at the success flag
Ping(s, response) == PingLines(response)

RECURSIVE MacLines(_, _)
MacLines(ls, q) ==
    IF ls = <<>> THEN None
    ELSE IF Find(StripCRLF(Head(ls)), q) = 0
         THEN Val(PySplit(StripCRLF(Head(ls)), COLON, 1)[2])
         ELSE MacLines(Tail(ls), q)

GetMac(s, response, q) ==
    IF ~s THEN None ELSE MacLines(response, q)

-----------------------------------------------------------------------------
(* ESP8266._parseApList and scan *)

Front(s) == SubSeq(s, 1, Len(s) - 1)

\* split at the commas that are outside double quotes
RECURSIVE SplitTop(_, _, _, _)
SplitTop(s, i, cur, inq) ==
    IF i > Len(s) THEN <<cur>>
    ELSE IF s[i] = "\"" THEN SplitTop(s, i + 1, Append(cur, s[i]), ~inq)
    ELSE IF s[i] = "," /\ ~inq THEN <<cur>> \o SplitTop(s, i + 1, <<>>, FALSE)
    ELSE SplitTop(s, i + 1, Append(cur, s[i]), inq)

\* one element of a tuple literal: an int or a double-quoted string
Literal(t) ==
    LET u == Strip(t)
        signed == u # <<>> /\ u[1] \in {"-", "+"}
        body == IF signed THEN Tail(u) ELSE u
        isInt == /\ body # <<>>
                 /\ \A i \in 1..Len(body) : body[i] \in Digits
                 /\ Len(body) = 1 \/ body[1] # "0"
                    \/ \A i \in 1..Len(body) : body[i] = "0"
        isStr == /\ Len(u) >= 2
                 /\ u[1] = "\""
                 /\ u[Len(u)] = "\""
                 /\ \A i \in 2..(Len(u) - 1) : u[i] \notin {"\"", "\\"}
    IN  IF isStr THEN [t |-> "str", v |-> SubSeq(u, 2, Len(u) - 1)]
        ELSE IF isInt THEN [t |-> "int", v |-> IntOf(u).val]
        ELSE [t |-> "error", v |-> 0]

\* eval(s) of a literal: a tuple, a single int or string, or an exception
PyEval(s) ==
    LET u == Strip(s)
        paren == Len(u) >= 2 /\ u[1] = "(" /\ u[Len(u)] = ")"
        inner == IF paren THEN SubSeq(u, 2, Len(u) - 1) ELSE u
        items == SplitTop(inner, 1, <<>>, FALSE)
        trailing == Len(items) >= 2 /\ Strip(items[Len(items)]) = <<>>
        elems == IF trailing THEN Front(items) ELSE items
        lits == [i \in 1..Len(elems) |-> Literal(elems[i])]
    IN  IF paren /\ Strip(inner) = <<>> THEN [kind |-> "tuple", elems |-> <<>>]
        ELSE IF \E i \in 1..Len(lits) : lits[i].t = "error"
             THEN [kind |-> "error", elems |-> <<>>]
        ELSE IF Len(items) = 1 THEN [kind |-> lits[1].t, elems |-> lits]
        ELSE [kind |-> "tuple", elems |-> lits]

\* int(x) of an evaluated element
PyInt(e) == IF e.t = "int" THEN [ok |-> TRUE, val |-> e.v] ELSE IntOf(e.v)

ECNs ==
    [e \in 0..4 |->
        CASE e = 0 -> "open" [] e = 1 -> "WEP" [] e = 2 -> "WPA-PSK"
          [] e = 3 -> "WPA2-PSK" [] e = 4 -> "WPA/WPA2-PSK"]

EmptyDict == [k \in {} |-> 0]

Skip == [skip |-> TRUE, rec |-> EmptyDict]
Keep(d) == [skip |-> FALSE, rec |-> d]

\* the elements len() and indexing see: a string is indexed by character
ElemsOf(x) ==
    IF x.kind = "str"
    THEN [i \in 1..Len(x.elems[1].v) |-> [t |-> "str", v |-> <<x.elems[1].v[i]>>]]
    ELSE x.elems

\* lines 195-206: decoded stays {} for a tuple of fewer than 3 elements
ApBase(ap) ==
    IF Len(ap) >= 3
    THEN [ecn |-> PyInt(ap[1]).val, auth_mode |-> ECNs[PyInt(ap[1]).val],
          ssid |-> ap[2], rssi |-> PyInt(ap[3]).val]
    ELSE EmptyDict

ApOptional(ap) ==
    (IF Len(ap) >= 4 THEN ("mac" :> ap[4]) ELSE EmptyDict)
    @@ (IF Len(ap) >= 5 THEN ("channel" :> ap[5]) ELSE EmptyDict)

\* the body of the try block for one evaluated value
ApFromValue(x) ==
    IF x.kind \in {"error", "int"} THEN Skip
    ELSE LET ap == ElemsOf(x)
         IN  IF Len(ap) >= 3
                /\ (~PyInt(ap[1]).ok \/ PyInt(ap[1]).val \notin DOMAIN ECNs
                    \/ ~PyInt(ap[3]).ok)
             THEN Skip
             ELSE Keep(ApBase(ap) @@ ApOptional(ap))

ApDecode(line) ==
    LET pieces == PySplit(Rstrip(line), Q_CWLAP, -1)
    IN  IF Len(pieces) < 2 THEN Skip ELSE ApFromValue(PyEval(pieces[2]))

RECURSIVE ParseApList(_)
ParseApList(apList) ==
    IF apList = <<>> THEN <<>>
    ELSE (IF ApDecode(Head(apList)).skip THEN <<>>
          ELSE <<ApDecode(Head(apList)).rec>>)
         \o ParseApList(Tail(apList))

HasRssi(d) == "rssi" \in DOMAIN d

\* stable insertion by rssi descending
RECURSIVE InsertDesc(_, _)
InsertDesc(sorted, d) ==
    IF sorted = <<>> THEN <<d>>
    ELSE IF Head(sorted).rssi >= d.rssi
         THEN <<Head(sorted)>> \o InsertDesc(Tail(sorted), d)
         ELSE <<d>> \o sorted

RECURSIVE SortDesc(_)
SortDesc(aps) ==
    IF aps = <<>> THEN <<>>
    ELSE InsertDesc(SortDesc(Front(aps)), aps[Len(aps)])

\* aps.sort(key=lambda item: item.get("rssi"), reverse=True)
SortAps(aps) ==
    IF Len(aps) >= 2 /\ \E i \in 1..Len(aps) : ~HasRssi(aps[i])
    THEN Fault("TypeError")
    ELSE IF Len(aps) <= 1 THEN Val(aps)
    ELSE Val(SortDesc(aps))

\* scan never looks at the success flag
Scan(s, response) == SortAps(ParseApList(response))

-----------------------------------------------------------------------------
(* getApIp / getStationIp, getApConfig / getDefaultApConfig, version *)

Q_CWSAP_CUR == <<"+", "C", "W", "S", "A", "P", "_", "C", "U", "R", ":">>
Q_CWSAP_DEF == <<"+", "C", "W", "S", "A", "P", "_", "D", "E", "F", ":">>

\* the value a scan of the lines leaves in a variable assigned at every
\* line that starts with q: the text after the n-th colon of the last one
RECURSIVE LastAfter(_, _, _)
LastAfter(ls, q, n) ==
    IF ls = <<>> THEN PyNone
    ELSE IF Find(ls[Len(ls)], q) = 0
         THEN PySplit(ls[Len(ls)], COLON, n)[n + 1]
         ELSE LastAfter(Front(ls), q, n)

Q_CIPAP_CUR == <<"+", "C", "I", "P", "A", "P", "_", "C", "U", "R", ":">>
Q_CIPSTA_CUR == <<"+", "C", "I", "P", "S", "T", "A", "_", "C", "U", "R", ":">>

NetConfigIpOnly(s, response, q) ==
    LET clean == [i \in 1..Len(response) |->
                     StripCRLF(Remove(response[i], "\""))]
        ip == LastAfter(clean, q \o <<"i", "p", ":">>, 2)
    IN  IF ~s \/ ip = PyNone THEN None
        ELSE Val([ip |-> ip, gateway |-> PyNone, netmask |-> PyNone])

\* getApIp with q = '+CIPAP_CUR:', getStationIp with q = '+CIPSTA_CUR:'
NetConfig(s, response, q) ==
    LET clean == [i \in 1..Len(response) |->
                     StripCRLF(Remove(response[i], "\""))]
        ip == LastAfter(clean, q \o <<"i", "p", ":">>, 2)
        gateway == LastAfter(clean, q \o <<"g", "a", "t", "e", "w", "a", "y", ":">>, 2)
        netmask == LastAfter(clean, q \o <<"n", "e", "t", "m", "a", "s", "k", ":">>, 2)
    IN  IF ~s THEN None
        ELSE IF ip = PyNone THEN None
        ELSE Val([ip |-> ip, gateway |-> gateway, netmask |-> netmask])

GetApIp(s, response) == NetConfig(s, response, Q_CIPAP_CUR)

GetStationIp(s, response) == NetConfig(s, response, Q_CIPSTA_CUR)

\* bool(s) of a text
PyBool(s) == s # <<>>

\* the record built from details = config.split(","); inverted for _DEF
ApConfigRecord(d, inverted) ==
    IF Len(d) < 3 THEN Fault("IndexError")
    ELSE IF ~IntOf(d[3]).ok THEN Fault("ValueError")
    ELSE IF Len(d) < 4 THEN Fault("IndexError")
    ELSE IF ~IntOf(d[4]).ok THEN Fault("ValueError")
    ELSE IF Len(d) < 5 THEN Fault("IndexError")
    ELSE IF ~IntOf(d[5]).ok THEN Fault("ValueError")
    ELSE IF Len(d) < 6 THEN Fault("IndexError")
    ELSE Val([ssid |-> d[1], password |-> d[2], channel |-> IntOf(d[3]).val,
              ecn |-> IntOf(d[4]).val, max_conn |-> IntOf(d[5]).val,
              hidden |-> IF inverted THEN ~PyBool(d[6]) ELSE PyBool(d[6])])

RECURSIVE ApConfigLines(_, _, _)
ApConfigLines(ls, q, inverted) ==
    IF ls = <<>> THEN None
    ELSE IF Find(Head(ls), q) = 0
         THEN ApConfigRecord(
                  PySplit(PySplit(StripCRLF(Head(ls)), COLON, 1)[2], COMMA, -1),
                  inverted)
         ELSE ApConfigLines(Tail(ls), q, inverted)

GetApConfig(s, response) ==
    IF ~s THEN None ELSE ApConfigLines(response, Q_CWSAP_CUR, FALSE)

GetDefaultApConfig(s, response) ==
    IF ~s THEN None ELSE ApConfigLines(response, Q_CWSAP_DEF, TRUE)

VersionLabel(k) ==
    CASE k = "AT version" -> <<"A", "T", " ", "v", "e", "r", "s", "i", "o", "n", ":">>
      [] k = "SDK version" -> <<"S", "D", "K", " ", "v", "e", "r", "s", "i", "o", "n", ":">>
      [] k = "compile time" -> <<"c", "o", "m", "p", "i", "l", "e", " ", "t", "i", "m", "e", ":">>

Version(s, response) ==
    LET clean == [i \in 1..Len(response) |-> StripCRLF(response[i])]
        keys == {"AT version", "SDK version", "compile time"}
    IN  IF ~s THEN None
        ELSE Val([k \in {k \in keys :
                            LastAfter(clean, VersionLabel(k), 1) # PyNone}
                  |-> LastAfter(clean, VersionLabel(k), 1)])

-----------------------------------------------------------------------------
(* ESP8266.receiveData *)

T_IPD == <<"+", "I", "P", "D">>
T_CLOSED == <<"C", "L", "O", "S", "E", "D">>

\* s.find(sub, start)
FindFrom(s, sub, start) ==
    LET r == Find(SubSeq(s, start + 1, Len(s)), sub)
    IN  IF r = -1 THEN -1 ELSE r + start

\* s[a:b]: a negative index counts from the end, both are clipped
PySlice(s, a, b) ==
    LET clip(i) == IF i < 0 THEN (IF Len(s) + i < 0 THEN 0 ELSE Len(s) + i)
                   ELSE IF i > Len(s) THEN Len(s) ELSE i
    IN  SubSeq(s, clip(a) + 1, clip(b))

EndsWith(s, t) ==
    Len(s) >= Len(t) /\ SubSeq(s, Len(s) - Len(t) + 1, Len(s)) = t

StripClosedNever(d) == d

\* lines 506-507
StripClosed(d) == IF EndsWith(d, T_CLOSED) THEN PySlice(d, 0, -6) ELSE d

\* uart.read(): None with nothing pending, else all the pending bytes
UartRead(pending) == IF pending = <<>> THEN PyNone ELSE Flatten(pending)

\* (None, None) is None here; (ID, data) is the record [id, data]
ReceiveData(chunk) ==
    IF chunk = PyNone THEN None
    ELSE IF Find(chunk, T_IPD) < 0 THEN None
    ELSE LET n1 == Find(chunk, T_IPD \o COMMA)
             n2 == FindFrom(chunk, COLON, n1 + 5)
             ID == IntOf(PySlice(chunk, n1 + 5, n2))
             n3 == Find(chunk, COLON)
         IN  IF ~ID.ok THEN Fault("ValueError")
             ELSE Val([id |-> ID.val,
                       data |-> StripClosed(PySlice(chunk, n3 + 1, Len(chunk)))])

-----------------------------------------------------------------------------
(* ESP8266.startConnection: decoding of the AT+CIPSTART reply *)

T_CONN == <<"C", "O", "N", "N">>

StartConnectionErrAnywhere(s, response) ==
    IF \E i \in 1..Len(response) : Find(StripCRLF(response[i]), T_ERR) > -1
    THEN FALSE
    ELSE IF \E i \in 1..Len(response) :
               \/ Find(StripCRLF(response[i]), T_CONN) > -1
               \/ Find(StripCRLF(response[i]), OK) > -1
         THEN TRUE
    ELSE s

\* lines 473-483: the first line holding ERR, CONN or OK decides
RECURSIVE StartConnectionResult(_, _)
StartConnectionResult(s, response) ==
    IF response = <<>> THEN s
    ELSE LET line == StripCRLF(Head(response))
         IN  IF Find(line, T_ERR) > -1 THEN FALSE
             ELSE IF Find(line, T_CONN) > -1 THEN TRUE
             ELSE IF Find(line, OK) > -1 THEN TRUE
             ELSE StartConnectionResult(s, Tail(response))

-----------------------------------------------------------------------------
(* Responses handed to the decoders *)

CwjapLine ==
    <<"+", "C", "W", "J", "A", "P", "_", "C", "U", "R", ":", "\"", "M",
      "y", "S", "S", "I", "D", "\"", ",", "\"", "a", "a", ":", "b",
      "b", ":", "c", "c", ":", "d", "d", ":", "e", "e", ":", "f",
      "f", "\"", ",", "6", ",", "-", "4", "2", CR, LF>>
CwjapShortLine ==
    <<"+", "C", "W", "J", "A", "P", "_", "C", "U", "R", ":", "\"", "M",
      "y", "S", "S", "I", "D", "\"", CR, LF>>
NoApLine == <<"N", "o", " ", "A", "P", CR, LF>>
BlankLine == <<CR, LF>>
ApOneLine ==
    <<"+", "C", "W", "L", "A", "P", ":", "(", "4", ",", "\"", "o", "n",
      "e", "\"", ",", "-", "8", "2", ",", "\"", "2", "2", ":", "1",
      "1", ":", "3", "3", ":", "4", "4", ":", "5", "5", ":", "6",
      "6", "\"", ",", "1", ",", "-", "2", "7", ",", "0", ")", CR, LF>>
ApAnotherLine ==
    <<"+", "C", "W", "L", "A", "P", ":", "(", "4", ",", "\"", "a", "n",
      "o", "t", "h", "e", "r", "\"", ",", "-", "3", "3", ",", "\"",
      "0", "0", ":", "a", "a", ":", "b", "b", ":", "c", "c", ":",
      "d", "d", ":", "e", "e", "\"", ",", "1", ",", "-", "2", "7",
      ",", "0", ")", CR, LF>>
ApShortLine ==
    <<"+", "C", "W", "L", "A", "P", ":", "(", "4", ",", "\"", "t", "w",
      "o", "\"", ")", CR, LF>>
ApBadLine ==
    <<"+", "C", "W", "L", "A", "P", ":", "(", "4", ",", "\"", "b", "a",
      "d", CR, LF>>

ConnReplies == {CwjapLine, CwjapShortLine, NoApLine, BlankLine}

ApReplies == {ApOneLine, ApAnotherLine, ApShortLine, ApBadLine}

\* +CWMODE_CUR:1, +SLEEP:2 and an empty line
ModeReplies ==
    {
      <<"+", "C", "W", "M", "O", "D", "E", "_", "C", "U", "R", ":", "1",
            CR, LF>>,
      <<"+", "S", "L", "E", "E", "P", ":", "2", CR, LF>>,
      BlankLine
    }

\* +12, +timeout and ERROR
PingReplies ==
    {
      <<"+", "1", "2", CR, LF>>,
      <<"+", "t", "i", "m", "e", "o", "u", "t", CR, LF>>,
      <<"E", "R", "R", "O", "R", CR, LF>>
    }

\* +CIPAPMAC_CUR:"1a:fe:34:a5:8d:c6", +CIPAP_CUR:ip / gateway / netmask and
\* +CIPSTA_CUR:ip:"192.168.31.195"
NetReplies ==
    {
      <<"+", "C", "I", "P", "A", "P", "M", "A", "C", "_", "C", "U", "R",
            ":", "\"", "1", "a", ":", "f", "e", ":", "3", "4", ":", "a",
            "5", ":", "8", "d", ":", "c", "6", "\"", CR, LF>>,
      <<"+", "C", "I", "P", "A", "P", "_", "C", "U", "R", ":", "i", "p",
            ":", "\"", "1", "9", "2", ".", "1", "6", "8", ".", "4", ".",
            "1", "\"", CR, LF>>,
      <<"+", "C", "I", "P", "A", "P", "_", "C", "U", "R", ":", "g", "a",
            "t", "e", "w", "a", "y", ":", "\"", "1", "9", "2", ".", "1",
            "6", "8", ".", "4", ".", "1", "\"", CR, LF>>,
      <<"+", "C", "I", "P", "A", "P", "_", "C", "U", "R", ":", "n", "e",
            "t", "m", "a", "s", "k", ":", "\"", "2", "5", "5", ".", "2",
            "5", "5", ".", "2", "5", "5", ".", "0", "\"", CR, LF>>,
      <<"+", "C", "I", "P", "S", "T", "A", "_", "C", "U", "R", ":", "i",
            "p", ":", "\"", "1", "9", "2", ".", "1", "6", "8", ".", "3",
            "1", ".", "1", "9", "5", "\"", CR, LF>>
    }

\* +CWSAP_CUR:"ESP","pwd",5,3,4,0 and the same cut after 3 fields
ApConfigReplies ==
    {
      <<"+", "C", "W", "S", "A", "P", "_", "C", "U", "R", ":", "\"", "E",
            "S", "P", "\"", ",", "\"", "p", "w", "d", "\"", ",", "5", ",",
            "3", ",", "4", ",", "0", CR, LF>>,
      <<"+", "C", "W", "S", "A", "P", "_", "C", "U", "R", ":", "\"", "E",
            "S", "P", "\"", ",", "\"", "p", "w", "d", "\"", ",", "5", CR, LF>>
    }

\* AT version:1.2.0.0, SDK version:1.5.4, compile time:May 20
VersionReplies ==
    {
      <<"A", "T", " ", "v", "e", "r", "s", "i", "o", "n", ":", "1", ".",
            "2", ".", "0", ".", "0", CR, LF>>,
      <<"S", "D", "K", " ", "v", "e", "r", "s", "i", "o", "n", ":", "1",
            ".", "5", ".", "4", CR, LF>>,
      <<"c", "o", "m", "p", "i", "l", "e", " ", "t", "i", "m", "e", ":",
            "M", "a", "y", " ", "2", "0", CR, LF>>
    }

IpdHello ==
    <<"+", "I", "P", "D", ",", "0", ":", "h", "e", "l", "l", "o", " ", "w",
      "o", "r", "l", "d">>

\* pending bytes: +IPD,0:hello world, CLOSED, a:b, +IPD,0,5:hello and +IPD
FrameReplies ==
    {
      IpdHello,
      T_CLOSED,
      <<"a", ":", "b">>,
      <<"+", "I", "P", "D", ",", "0", ",", "5", ":", "h", "e", "l", "l", "o">>,
      T_IPD
    }

\* ALREADY CONNECTED, ERROR, SEND OK and an empty line
StartReplies ==
    {
      <<"A", "L", "R", "E", "A", "D", "Y", " ", "C", "O", "N", "N", "E",
            "C", "T", "E", "D", CR, LF>>,
      <<"E", "R", "R", "O", "R", CR, LF>>,
      <<"S", "E", "N", "D", " ", "O", "K", CR, LF>>,
      BlankLine
    }

Families ==
    {ConnReplies, ApReplies, ModeReplies, PingReplies, NetReplies,
     ApConfigReplies, VersionReplies, FrameReplies, StartReplies}

MaxRespLines == 3

SeqsUpTo(S, n) == UNION {[1..k -> S] : k \in 0..n}

Responses == UNION {SeqsUpTo(F, MaxRespLines) : F \in Families}

(* A public getter: decode the (lines, success) pair _exec returned *)

DecodeAll(s, response) ==
    [mode |-> ParseMode(s, response, Q_CWMODE_CUR),
     sleep |-> GetSleepMode(s, response),
     conn |-> ParseConnection(s, response, Q_CWJAP_CUR),
     apList |-> ParseApList(response),
     scan |-> Scan(s, response),
     ping |-> Ping(s, response),
     mac |-> GetMac(s, response, Q_CIPAPMAC_CUR),
     apIp |-> GetApIp(s, response),
     staIp |-> GetStationIp(s, response),
     apConfig |-> GetApConfig(s, response),
     version |-> Version(s, response),
     frame |-> ReceiveData(UartRead(response)),
     connected |-> StartConnectionResult(s, response)]

Decode ==
    /\ dPc = "input"
    /\ dPc' = "decoded"
    /\ dOut' = DecodeAll(dOk, dLines)
    /\ UNCHANGED <<dOk, dLines, engVars, opVars>>

InitDec ==
    /\ EngInit
    /\ OpInit
    /\ dPc = "input"
    /\ dOk \in BOOLEAN
    /\ dLines \in Responses
    /\ dOut = <<>>

NextDec == Decode

SpecDec == InitDec /\ [][NextDec]_vars

-----------------------------------------------------------------------------
(* ESP8266._joinArgs *)

MaxArgs == 4

\* arguments tagged with their Python type:
\* "MySSID", "pwd", 'a"b', b'TCP', True, False, 80, -5, None
ArgValues ==
    {[t |-> "str", v |-> <<"M", "y", "S", "S", "I", "D">>],
     [t |-> "str", v |-> <<"p", "w", "d">>],
     [t |-> "str", v |-> <<"a", "\"", "b">>],
     [t |-> "bytes", v |-> <<"T", "C", "P">>],
     [t |-> "bool", v |-> TRUE],
     [t |-> "bool", v |-> FALSE],
     [t |-> "int", v |-> 80],
     [t |-> "int", v |-> -5],
     [t |-> "None", v |-> 0]}

\* str(n) of an integer
RECURSIVE Decimal(_)
Decimal(n) ==
    IF n < 0 THEN <<"-">> \o Decimal(0 - n)
    ELSE IF n < 10 THEN <<CHOOSE c \in Digits : DigitVal(c) = n>>
    ELSE Decimal(n \div 10) \o Decimal(n % 10)

IsAbsentNever(arg) == FALSE

\* line 569: arg is None
IsAbsent(arg) == arg.t = "None"

\* what one argument appends to result: a list of zero or one text; the
\* last branch is str(arg) of an int or of None
EncodeArg(arg) ==
    IF arg.t = "str" THEN <<(<<"\"">> \o arg.v \o <<"\"">>)>>
    ELSE IF arg.t = "bytes" THEN <<arg.v>>
    ELSE IF arg.t = "bool" THEN <<Decimal(IF arg.v THEN 1 ELSE 0)>>
    ELSE IF ~IsAbsent(arg)
         THEN <<(IF arg.t = "int" THEN Decimal(arg.v)
                 ELSE <<"N", "o", "n", "e">>)>>
    ELSE <<>>

\* sep.join(parts)
RECURSIVE PyJoin(_, _)
PyJoin(sep, parts) ==
    IF parts = <<>> THEN <<>>
    ELSE IF Len(parts) = 1 THEN parts[1]
    ELSE parts[1] \o sep \o PyJoin(sep, Tail(parts))

RECURSIVE EncodeArgs(_)
EncodeArgs(args) ==
    IF args = <<>> THEN <<>>
    ELSE EncodeArg(Head(args)) \o EncodeArgs(Tail(args))

JoinArgs(args) == PyJoin(COMMA, EncodeArgs(args))

\* a call of _joinArgs
JoinArgsCall ==
    /\ op = "args"
    /\ op' = "joined"
    /\ opRet' = JoinArgs(opArgs)
    /\ UNCHANGED <<engVars, opStep, opArgs, fault, decVars>>

InitEnc ==
    /\ EngInit
    /\ DecInit
    /\ op = "args"
    /\ opStep = 0
    /\ opArgs \in SeqsUpTo(ArgValues, MaxArgs)
    /\ opRet = <<>>
    /\ fault = FALSE

NextEnc == JoinArgsCall

SpecEnc == InitEnc /\ [][NextEnc]_vars

-----------------------------------------------------------------------------
(* ESP8266.httpRequest, startConnection, sendResponse, closeConnection *)

T_SEND_OK == <<"S", "E", "N", "D", " ", "O", "K">>

\* http://h.io/p, https://h.io:8443 and ftp://h.io/p
Urls ==
    {<<"h", "t", "t", "p", ":", "/", "/", "h", ".", "i", "o", "/", "p">>,
     <<"h", "t", "t", "p", "s", ":", "/", "/", "h", ".", "i", "o", ":",
           "8", "4", "4", "3">>,
     <<"f", "t", "p", ":", "/", "/", "h", ".", "i", "o", "/", "p">>}

\* lines 399-420: [raises, transportType, host, port, path]; URLs without
\* credentials, so auth is None
ParseUrl(url) ==
    LET p4 == PySplit(url, <<"/">>, 3)
        p3 == PySplit(url, <<"/">>, 2)
        parts == IF Len(p4) = 4 THEN p4 ELSE p3 \o <<(<<>>)>>
        proto == parts[1]
        secure == proto = <<"h", "t", "t", "p", "s", ":">>
        known == secure \/ proto = <<"h", "t", "t", "p", ":">>
        hp == IF Len(parts) = 4 THEN PySplit(parts[3], COLON, 1) ELSE <<>>
    IN  IF Len(parts) # 4 \/ ~known \/ (Len(hp) = 2 /\ ~IntOf(hp[2]).ok)
        THEN [raises |-> TRUE]
        ELSE [raises |-> FALSE,
              transportType |-> IF secure THEN <<"S", "S", "L">>
                                ELSE <<"T", "C", "P">>,
              host |-> hp[1],
              port |-> IF Len(hp) = 2 THEN IntOf(hp[2]).val
                       ELSE IF secure THEN 443 ELSE 80,
              path |-> <<"/">> \o parts[4]]

\* lines 427-431, with the default user_agent
Header(method, u) ==
    method \o <<" ">> \o u.path
    \o <<" ", "H", "T", "T", "P", "/", "1", ".", "1", CR, LF, "H", "o", "s",
          "t", ":", " ">>
    \o u.host
    \o <<CR, LF, "U", "s", "e", "r", "-", "A", "g", "e", "n", "t", ":", " ",
          "E", "S", "P", "-", "0", "1", " ", "(", "o", "n", " ", "R",
          "P", "i", " ", "P", "i", "c", "o", ")", CR, LF, "C", "o", "n",
          "n", "e", "c", "t", "i", "o", "n", ":", " ", "c", "l", "o",
          "s", "e", CR, LF, CR, LF>>

HttpCmdHeaderFirst(k, args) ==
    CASE k = 1 -> <<"A", "T", "+", "C", "I", "P", "S", "T", "A", "R", "T", "=">>
      [] k = 2 -> args.header
      [] OTHER -> <<"A", "T", "+", "C", "I", "P", "S", "E", "N", "D", "=">>

\* the commands of httpRequest (k = 1, 2, 3) and sendResponse (k = 4, 5)
HttpCmd(k, args) ==
    CASE k = 1 ->
           <<"A", "T", "+", "C", "I", "P", "S", "T", "A", "R", "T", "=">>
           \o JoinArgs(<<[t |-> "str", v |-> args.url.transportType],
                          [t |-> "str", v |-> args.url.host],
                          [t |-> "int", v |-> args.url.port]>>)
      [] k = 2 ->
           <<"A", "T", "+", "C", "I", "P", "S", "E", "N", "D", "=">>
           \o Decimal(Len(args.header))
      [] k = 3 -> args.header
      [] k = 4 ->
           <<"A", "T", "+", "C", "I", "P", "S", "E", "N", "D", "=">>
           \o Decimal(args.connId) \o COMMA \o Decimal(Len(args.body))
      [] k = 5 -> <<"A", "T", "+", "C", "I", "P", "C", "L", "O", "S", "E">>

\* httpRequest up to the _exec call inside startConnection
HttpRequest(method, url, timeout) ==
    /\ op = "none"
    /\ pc = "idle"
    /\ IF method # <<"G", "E", "T">> \/ ParseUrl(url).raises
       THEN /\ fault' = TRUE
            /\ op' = "raised"
            /\ opArgs' = [method |-> method]
            /\ UNCHANGED <<engVars, opStep, opRet>>
       ELSE /\ op' = "httpRequest"
            /\ opStep' = 1
            /\ opArgs' = [method |-> method, url |-> ParseUrl(url),
                          timeout |-> timeout,
                          header |-> Header(method, ParseUrl(url))]
            /\ ExecStart(HttpCmd(1, opArgs'), OK, 5000)
            /\ UNCHANGED <<calls, opRet, fault>>
    /\ UNCHANGED decVars

\* lines 422-436: startConnection returns; on success the length is announced
HttpConnected ==
    /\ op = "httpRequest"
    /\ opStep = 1
    /\ pc = "done"
    /\ IF StartConnectionResult(ok, result)
       THEN /\ opStep' = 2
            /\ ExecStart(HttpCmd(2, opArgs), OK, DefaultTimeout)
            /\ UNCHANGED <<op, opRet>>
       ELSE /\ op' = "returned"
            /\ opRet' = None
            /\ UNCHANGED <<engVars, opStep>>
    /\ UNCHANGED <<calls, opArgs, fault, decVars>>

\* line 437: the header is sent and SEND OK awaited
HttpSendHeader ==
    /\ op = "httpRequest"
    /\ opStep = 2
    /\ pc = "done"
    /\ opStep' = 3
    /\ ExecStart(HttpCmd(3, opArgs), T_SEND_OK, opArgs.timeout)
    /\ UNCHANGED <<calls, op, opArgs, opRet, fault, decVars>>

\* lines 441-444: one uart.read() through receiveData; data is returned
HttpReceive ==
    /\ op = "httpRequest"
    /\ opStep = 3
    /\ pc = "done"
    /\ opStep' = 4
    /\ rx' = <<>>
    /\ LET r == ReceiveData(IF rx = <<>> THEN PyNone ELSE rx)
       IN  /\ opRet' = IF r.kind = "value" THEN Val(r.val.data) ELSE r
           /\ fault' = (r.kind = "fault")
           /\ op' = IF r.kind = "fault" THEN "raised" ELSE "returned"
    /\ UNCHANGED <<tx, emitted, calls, pc, acc, ticks, result, ok, data,
                   linesRead, consumed, opArgs, decVars>>

ResponseDataBodyOnly(statusCode, body) == body

\* line 516: the preamble with the status code, followed by the body
ResponseData(statusCode, body) ==
    <<"H", "T", "T", "P", "/", "1", ".", "1", " ">>
    \o Decimal(statusCode)
    \o <<" ", "O", "K", CR, LF, "C", "o", "n", "t", "e", "n", "t", "-", "T",
          "y", "p", "e", ":", " ", "t", "e", "x", "t", "/", "h", "t",
          "m", "l", CR, LF, "C", "o", "n", "n", "e", "c", "t", "i", "o",
          "n", ":", " ", "c", "l", "o", "s", "e", CR, LF, CR, LF>>
    \o body

\* sendResponse up to its _exec call: the length announcement
SendResponse(connId, body) ==
    /\ op = "none"
    /\ pc = "idle"
    /\ op' = "sendResponse"
    /\ opStep' = 1
    /\ opArgs' = [connId |-> connId, body |-> body,
                  data |-> ResponseData(200, body)]
    /\ ExecStart(HttpCmd(4, opArgs'), OK, DefaultTimeout)
    /\ UNCHANGED <<calls, opRet, fault, decVars>>

\* line 518: self.uart.write(data), not through _exec
ResponseWrite ==
    /\ op = "sendResponse"
    /\ opStep = 1
    /\ pc = "done"
    /\ opStep' = 2
    /\ tx' = Append(tx, <<opArgs.data>>)
    /\ UNCHANGED <<rx, emitted, calls, pc, acc, ticks, result, ok, data,
                   linesRead, consumed, op, opArgs, opRet, fault, decVars>>

\* line 521: closeConnection up to its _exec call
ResponseClose ==
    /\ op = "sendResponse"
    /\ opStep = 2
    /\ opStep' = 3
    /\ ExecStart(HttpCmd(5, opArgs), OK, DefaultTimeout)
    /\ UNCHANGED <<calls, op, opArgs, opRet, fault, decVars>>

\* closeConnection returns True, sendResponse returns None
ResponseReturn ==
    /\ op = "sendResponse"
    /\ opStep = 3
    /\ pc = "done"
    /\ op' = "returned"
    /\ opRet' = None
    /\ UNCHANGED <<engVars, opStep, opArgs, fault, decVars>>

MaxExecLines == 2

\* A call of _exec as httpRequest and sendResponse see it: after the write
\* it takes none or all of the pending bytes and returns some payload and
\* flag.
\* The loop that produces them is the one of Spec.
ExecReturn ==
    /\ op \in {"httpRequest", "sendResponse"}
    /\ pc = "loop"
    /\ pc' = "done"
    /\ \E r \in SeqsUpTo(StartReplies, MaxExecLines), s \in BOOLEAN,
          n \in {0, Len(rx)} :
          /\ result' = r
          /\ ok' = s
          /\ rx' = SubSeq(rx, n + 1, Len(rx))
          /\ consumed' = n
    /\ UNCHANGED <<tx, emitted, calls, acc, ticks, data, linesRead>>
    /\ UNCHANGED <<opVars, decVars>>

NextHttp ==
    \/ \E m \in {<<"G", "E", "T">>, <<"P", "A", "T", "C", "H">>}, u \in Urls :
          HttpRequest(m, u, 300)
    \/ HttpConnected
    \/ HttpSendHeader
    \/ HttpReceive
    \/ \E body \in {<<"h", "i">>, <<>>} : SendResponse(0, body)
    \/ ResponseWrite
    \/ ResponseClose
    \/ ResponseReturn
    \/ ExecReturn
    \/ Emit(IpdHello)

SpecHttp == Init /\ [][NextHttp]_vars

-----------------------------------------------------------------------------
(* Properties of the transaction engine *)

Last(s) == s[Len(s)]

NonEmpty(ls) == SelectSeq(ls, LAMBDA l : l # <<>>)

Supplied(a) == a # NoToken /\ a # <<>>

SentinelRead == \E i \in 1..Len(linesRead) : Rstrip(linesRead[i]) = OK

TokenRead ==
    Supplied(acc) /\ \E i \in 1..Len(linesRead) : Rstrip(linesRead[i]) = acc

\* The step on which readline hands a buffer to _exec
LineStep == pc = "readline" /\ Len(linesRead') = Len(linesRead) + 1

\* C1 (as stated): the returned success flag is true iff a line whose
\* trimmed content is OK or is the supplied match token was read in the call.
C1_SuccessIffSentinelOrToken ==
    pc = "done" => (ok <=> (SentinelRead \/ TokenRead))

\* C1 (amended): throughout a call the success flag is true iff a line whose
\* trimmed content is OK was read in that call; a match token other than OK
\* ends the call without setting the flag.
C1_SuccessIffSentinel ==
    pc \in {"loop", "readline", "done"} => (ok <=> SentinelRead)

C1_Witness ==
    /\ pc = "done"
    /\ acc = READY
    /\ TokenRead
    /\ ~SentinelRead
    /\ ~ok

\* C2: the payload list never holds a line whose trimmed content is OK, nor
\* one whose trimmed content is the supplied match token.
C2_PayloadExcludesSentinelAndToken ==
    \A i \in 1..Len(result) :
        /\ Rstrip(result[i]) # OK
        /\ Supplied(acc) => Rstrip(result[i]) # acc

\* C3: a call that ends with neither an OK line nor a match-token line read
\* has exhausted its budget and returns success = false together with
\* exactly the non-empty buffers read, in arrival order.
C3_TimeoutReturnsFalseAndLines ==
    (pc = "done" /\ ~SentinelRead /\ ~TokenRead) =>
        /\ ok = FALSE
        /\ ticks = 0
        /\ result = NonEmpty(linesRead)

C3_Witness ==
    /\ pc = "done"
    /\ ~SentinelRead
    /\ ~TokenRead
    /\ Len(result) >= 2
    /\ EmptyReads(linesRead) >= 1

\* C4: every completed iteration of the polling loop (a step of _exec that
\* ends back at the loop test, not a step of the device) strictly decreases
\* the remaining attempt budget.
C4_EveryIterationDecrements ==
    [][(/\ pc \in {"loop", "readline"}
        /\ pc' = "loop"
        /\ emitted' = emitted) => ticks' < ticks]_vars

\* C5: reading a line whose trimmed content is the supplied match token ends
\* the call on that step with the payload and the success value recorded so
\* far; the token line is not appended, and once the call has returned it
\* takes no byte from the transport, so what follows the token stays pending.
C5_MatchReturnsImmediately ==
    /\ [][(LineStep /\ Supplied(acc) /\ Rstrip(Last(linesRead')) = acc) =>
            /\ pc' = "done"
            /\ result' = result
            /\ ticks' = ticks
            /\ ok' = (ok \/ Rstrip(Last(linesRead')) = OK)
            /\ rx' = rx \/ (rx # <<>> /\ rx' = Tail(rx))
            /\ consumed' = Len(Flatten(linesRead'))]_vars
    /\ [][(pc = "done" /\ pc' = "done") =>
            /\ consumed' = consumed
            /\ Len(rx') >= Len(rx)
            /\ SubSeq(rx', 1, Len(rx)) = rx]_vars

C5_Witness ==
    /\ pc = "done"
    /\ acc = READY
    /\ linesRead # <<>>
    /\ Rstrip(Last(linesRead)) = READY
    /\ result # <<>>
    /\ rx # <<>>

\* C6: reading OK sets the success flag and, unless OK is the match token,
\* the loop goes on collecting; without a match token the call returns only
\* with its attempt budget at zero.
C6_SentinelDoesNotTerminate ==
    /\ [][(LineStep /\ Rstrip(Last(linesRead')) = OK /\ acc # OK) =>
            /\ ok' = TRUE
            /\ pc' = "loop"
            /\ result' = Append(result, Last(linesRead'))]_vars
    /\ [][(pc' = "done" /\ acc' = NoToken) => ticks' = 0]_vars

C6_Witness ==
    /\ pc = "done"
    /\ acc = NoToken
    /\ ok
    /\ Len(result) >= 2
    /\ Rstrip(result[1]) = OK

-----------------------------------------------------------------------------
(* Properties of startServer *)

\* C7: startServer called with a connection count outside 1..5 or a TCP
\* timeout outside 0..7200 raises before anything is written to the
\* transport.
C7_OutOfRangeRejected ==
    (op # "none" /\ (opArgs.maxConn \notin 1..5
                     \/ opArgs.tcpTimeout \notin 0..7200)) =>
        (fault /\ tx = <<>>)

-----------------------------------------------------------------------------
(* Properties of the response decoders *)

\* what the connection decoder returns for a successful reply saying No AP
NoAssociation == ParseConnection(TRUE, <<NoApLine>>, Q_CWJAP_CUR)

\* what the connection decoder returns when no line has the prefix
NotAvailable == ParseConnection(TRUE, <<BlankLine>>, Q_CWJAP_CUR)

\* C8: for a failed transaction the connection decoder returns "not
\* available", the value it returns when no line matches, and never the
\* "no association" outcome.
C8_FailureIsNotNoAssociation ==
    (dPc = "decoded" /\ ~dOk) =>
        /\ dOut.conn = NotAvailable
        /\ dOut.conn # NoAssociation

ReturnsNoValue(r) == r.kind # "value"

\* C9: whenever the success flag is false no decoder returns a value parsed
\* from the payload lines (scan: no record), whatever the lines hold.
C9_FailedTransactionDecodesToNothing ==
    (dPc = "decoded" /\ ~dOk) =>
        /\ ReturnsNoValue(dOut.mode)
        /\ ReturnsNoValue(dOut.sleep)
        /\ ReturnsNoValue(dOut.conn)
        /\ ReturnsNoValue(dOut.scan) \/ dOut.scan.val = <<>>
        /\ ReturnsNoValue(dOut.mac)
        /\ ReturnsNoValue(dOut.apIp)
        /\ ReturnsNoValue(dOut.apConfig)
        /\ ReturnsNoValue(dOut.version)
        /\ ReturnsNoValue(dOut.ping)

\* a line that holds, after the marker, a tuple literal of 3 or more elements
WellFormedAp(line) ==
    /\ Len(PySplit(Rstrip(line), Q_CWLAP, -1)) >= 2
    /\ PyEval(PySplit(Rstrip(line), Q_CWLAP, -1)[2]).kind = "tuple"
    /\ Len(PyEval(PySplit(Rstrip(line), Q_CWLAP, -1)[2]).elems) >= 3

\* C10: the AP-list decoder returns one record per well-formed line and none
\* for any other line, and every record it returns has auth mode, ssid and
\* rssi.
C10_MalformedApLinesSkipped ==
    dPc = "decoded" =>
        /\ Len(dOut.apList)
             = Cardinality({i \in 1..Len(dLines) : WellFormedAp(dLines[i])})
        /\ \A i \in 1..Len(dOut.apList) :
              {"auth_mode", "ssid", "rssi"} \subseteq DOMAIN dOut.apList[i]

\* the number of positions of the list ls that hold the record r
Occurrences(ls, r) == Cardinality({i \in 1..Len(ls) : ls[i] = r})

\* C11: for every scan response, scan returns (without faulting) a list
\* ordered by rssi descending that is a permutation of the records decoded
\* from the response lines.
C11_ScanSortedPermutation ==
    dPc = "decoded" =>
        /\ dOut.scan.kind = "value"
        /\ \A i \in 1..(Len(dOut.scan.val) - 1) :
              /\ HasRssi(dOut.scan.val[i])
              /\ HasRssi(dOut.scan.val[i + 1])
              /\ dOut.scan.val[i].rssi >= dOut.scan.val[i + 1].rssi
        /\ Len(dOut.scan.val) = Len(dOut.apList)
        /\ \A i \in 1..Len(dOut.apList) :
              Occurrences(dOut.scan.val, dOut.apList[i])
                = Occurrences(dOut.apList, dOut.apList[i])

\* a network-config result that is "not available" or has all three fields
AllOrNone(r) ==
    \/ r = None
    \/ /\ r.kind = "value"
       /\ r.val.ip # PyNone
       /\ r.val.gateway # PyNone
       /\ r.val.netmask # PyNone

\* C12 (as stated): getApIp and getStationIp return either "not available"
\* or a record whose ip, gateway and netmask are all populated, for every
\* set and order of response lines.
C12_NetConfigAllOrNone ==
    dPc = "decoded" => (AllOrNone(dOut.apIp) /\ AllOrNone(dOut.staIp))

\* some line of ls, cleaned as the decoder cleans it, starts with q + field
Seen(ls, q, field) ==
    \E i \in 1..Len(ls) :
        Find(StripCRLF(Remove(ls[i], "\"")), q \o field) = 0

\* "not available" exactly when the transaction failed or no ip line was
\* seen; otherwise a record with ip, and with gateway and netmask exactly
\* when their lines were seen
IpOrNone(r, q) ==
    /\ r = None <=> (~dOk \/ ~Seen(dLines, q, <<"i", "p", ":">>))
    /\ r # None =>
          /\ r.kind = "value"
          /\ r.val.ip # PyNone
          /\ r.val.gateway # PyNone
                <=> Seen(dLines, q, <<"g", "a", "t", "e", "w", "a", "y", ":">>)
          /\ r.val.netmask # PyNone
                <=> Seen(dLines, q, <<"n", "e", "t", "m", "a", "s", "k", ":">>)

\* C12 (amended): getApIp and getStationIp return "not available" exactly
\* when the transaction failed or no ip line was seen; otherwise they return
\* a record whose ip is populated and whose gateway and netmask are
\* populated only if their lines were seen, so a partial record is possible.
C12_NetConfigIpOrNone ==
    dPc = "decoded" =>
        (IpOrNone(dOut.apIp, Q_CIPAP_CUR) /\ IpOrNone(dOut.staIp, Q_CIPSTA_CUR))

\* ip and netmask lines seen, no gateway line: a partial record
C12_Witness ==
    /\ dPc = "decoded"
    /\ dOk
    /\ dOut.apIp.kind = "value"
    /\ dOut.apIp.val.gateway = PyNone
    /\ dOut.apIp.val.netmask # PyNone

-----------------------------------------------------------------------------
(* Properties of the inbound framer *)

\* the raw chunk the framer was applied to
Chunk == UartRead(dLines)

\* offset of the first delimiter after the first +IPD, marker of chunk c
DelimAfterMarker(c) == FindFrom(c, COLON, Find(c, T_IPD \o COMMA) + 5)

\* the text between the marker and that delimiter
IdField(c) == PySlice(c, Find(c, T_IPD \o COMMA) + 5, DelimAfterMarker(c))

\* payload p with one trailing CLOSED removed, if it ends with one
WithoutTrailingClosed(p) ==
    IF EndsWith(p, T_CLOSED) THEN SubSeq(p, 1, Len(p) - 6) ELSE p

\* C13: for every chunk that holds the +IPD, marker at any offset, followed
\* by an integer id and a delimiter, the framer returns that id and the
\* payload that starts right after that same delimiter, so that no byte
\* located before the marker is part of the payload.
C13_PayloadStartsAfterMarkerDelimiter ==
    (/\ dPc = "decoded"
     /\ Chunk # PyNone
     /\ Find(Chunk, T_IPD \o COMMA) >= 0
     /\ DelimAfterMarker(Chunk) >= 0
     /\ IntOf(IdField(Chunk)).ok) =>
        /\ dOut.frame.kind = "value"
        /\ dOut.frame.val.id = IntOf(IdField(Chunk)).val
        /\ dOut.frame.val.data
             = WithoutTrailingClosed(
                   SubSeq(Chunk, DelimAfterMarker(Chunk) + 2, Len(Chunk)))

-----------------------------------------------------------------------------
(* Properties of the argument encoder *)

\* the arguments of the list that are not None
Present(args) == SelectSeq(args, LAMBDA a : a.t # "None")

\* no text argument holds a double quote
QuoteFree(args) ==
    \A i \in 1..Len(args) : args[i].t = "str" => Find(args[i].v, <<"\"">>) = -1

\* the comma-separated fields of an encoded argument list
Fields(out) == IF out = <<>> THEN <<>> ELSE SplitTop(out, 1, <<>>, FALSE)

\* field f is the encoding of argument a
FieldOf(a, f) ==
    CASE a.t = "str" -> f = <<"\"">> \o a.v \o <<"\"">>
      [] a.t = "bytes" -> f = a.v
      [] a.t = "bool" -> f = IF a.v THEN <<"1">> ELSE <<"0">>
      [] a.t = "int" -> /\ IntOf(f).ok
                        /\ IntOf(f).val = a.v
                        /\ \A i \in 1..Len(f) : f[i] \in Digits \cup {"-"}

\* C15: the encoder emits one comma-separated field per non-absent
\* argument, in argument order, and nothing for an absent one (no empty
\* field, no doubled comma); text is wrapped in double quotes without
\* escaping, booleans become 1 or 0, numbers their decimal form;
\* ("MySSID", "pwd", None, True) encodes to "MySSID","pwd",1.
C15_OneFieldPerPresentArgument ==
    op = "joined" =>
        /\ QuoteFree(opArgs) =>
              /\ Len(Fields(opRet)) = Len(Present(opArgs))
              /\ \A i \in 1..Len(Fields(opRet)) :
                    /\ Fields(opRet)[i] # <<>>
                    /\ FieldOf(Present(opArgs)[i], Fields(opRet)[i])
        /\ Find(opRet, <<",", ",">>) = -1
        /\ opRet # <<>> => (Head(opRet) # "," /\ Last(opRet) # ",")
        /\ opArgs = <<[t |-> "str", v |-> <<"a", "\"", "b">>]>> =>
              opRet = <<"\"", "a", "\"", "b", "\"">>

\* ("MySSID", "pwd", None, True) gives "MySSID","pwd",1
C15_Witness ==
    /\ op = "joined"
    /\ opArgs = <<[t |-> "str", v |-> <<"M", "y", "S", "S", "I", "D">>],
                  [t |-> "str", v |-> <<"p", "w", "d">>],
                  [t |-> "None", v |-> 0], [t |-> "bool", v |-> TRUE]>>
    /\ opRet = <<"\"", "M", "y", "S", "S", "I", "D", "\"", ",", "\"", "p", "w",
                 "d", "\"", ",", "1">>

-----------------------------------------------------------------------------
(* Properties of startConnection *)

\* line i of the response holds the text t
Holds(i, t) == Find(StripCRLF(dLines[i]), t) > -1

\* line i holds one of the tokens startConnection looks for
HoldsToken(i) == Holds(i, T_ERR) \/ Holds(i, T_CONN) \/ Holds(i, OK)

\* C16 (as stated): startConnection reports failure whenever some line of
\* the response holds the error token, wherever that line is; it reports
\* success when a line holds the "already connected" token or the sentinel
\* was observed and no line holds the error token; without any of these
\* tokens it reports the transaction's success flag.
C16_ErrorAnywhereIsFailure ==
    dPc = "decoded" =>
        /\ (\E i \in 1..Len(dLines) : Holds(i, T_ERR)) => ~dOut.connected
        /\ (/\ \A i \in 1..Len(dLines) : ~Holds(i, T_ERR)
            /\ \/ dOk
               \/ \E i \in 1..Len(dLines) : Holds(i, T_CONN) \/ Holds(i, OK))
              => dOut.connected
        /\ (\A i \in 1..Len(dLines) : ~HoldsToken(i)) => (dOut.connected = dOk)

\* C16 (amended): the first line, in arrival order, that holds the error
\* token, the "already connected" token or OK decides: failure if it holds
\* the error token, success otherwise; an error line that follows a line
\* holding "already connected" or OK does not make the result a failure.
\* Without any of these tokens the result is the transaction's success flag.
C16_FirstTokenLineDecides ==
    dPc = "decoded" =>
        /\ \A i \in 1..Len(dLines) :
              (HoldsToken(i) /\ \A j \in 1..(i - 1) : ~HoldsToken(j)) =>
                  (dOut.connected = ~Holds(i, T_ERR))
        /\ (\A i \in 1..Len(dLines) : ~HoldsToken(i)) => (dOut.connected = dOk)

\* ALREADY CONNECTED followed by ERROR is reported as success
C16_Witness ==
    /\ dPc = "decoded"
    /\ ~dOk
    /\ Len(dLines) >= 2
    /\ Holds(1, T_CONN)
    /\ ~Holds(1, T_ERR)
    /\ Holds(2, T_ERR)
    /\ dOut.connected

-----------------------------------------------------------------------------
(* Properties of the decoders on responses of unexpected shape *)

Faults(r) == r.kind = "fault"

\* C17: the connection decoder, the SoftAP-config decoder and the inbound
\* framer never raise on a response of unexpected shape (a prefix-matching
\* line with fewer comma-separated fields than are indexed, a non-integer
\* where an integer is expected, a chunk whose connection-id field is not an
\* integer): each returns "not available"/none instead.
C17_DecodersNeverFault ==
    dPc = "decoded" =>
        /\ ~Faults(dOut.conn)
        /\ ~Faults(dOut.apConfig)
        /\ ~Faults(dOut.frame)

-----------------------------------------------------------------------------
(* Properties of httpRequest and sendResponse *)

\* what _exec writes for the command text c
Written(c) == <<c, CR, LF>>

StartsWith(s, t) == Len(s) >= Len(t) /\ SubSeq(s, 1, Len(t)) = t

IsConnect(w) ==
    /\ Len(w) = 3
    /\ StartsWith(w[1], <<"A", "T", "+", "C", "I", "P", "S", "T", "A", "R", "T", "=">>)

IsAnnounce(w) ==
    /\ Len(w) = 3
    /\ StartsWith(w[1], <<"A", "T", "+", "C", "I", "P", "S", "E", "N", "D", "=">>)

InRequest == "header" \in DOMAIN opArgs

\* the writes of a request at each of its steps
RequestWrites ==
    InRequest =>
        /\ opStep \in 1..4
        /\ Len(tx) = IF opStep = 4 THEN 3 ELSE opStep
        /\ IsConnect(tx[1])
        /\ opStep >= 2 => IsAnnounce(tx[2])
        /\ opStep >= 3 => tx[3] = Written(opArgs.header)
        /\ (opStep = 3 /\ pc = "loop") => acc = T_SEND_OK
        /\ opStep = 1 => op \in {"httpRequest", "returned"}
        /\ opStep \in {2, 3} => op = "httpRequest"
        /\ opStep = 4 => op \in {"returned", "raised"}

\* the steps of a request follow one another; the connecting step is left
\* for the announcement only when decoded as success and otherwise ends the
\* request; bytes are taken outside a transaction by the last step only
RequestStep ==
    (InRequest /\ opStep' # opStep) =>
        /\ opStep' = opStep + 1
        /\ pc = "done"
        /\ opStep = 1 => StartConnectionResult(ok, result)
        /\ opStep = 3 <=> (rx' = <<>> /\ tx' = tx /\ pc' = "done")

RequestEnd ==
    (InRequest /\ op = "httpRequest" /\ op' # "httpRequest") =>
        \/ /\ opStep = 1
           /\ ~StartConnectionResult(ok, result)
           /\ tx' = tx
           /\ Len(tx) = 1
           /\ opRet' = None
        \/ opStep = 3 /\ opStep' = 4

\* C18: an HTTP client request goes through its steps in order: it writes
\* the connection-establishment command, then the length announcement, then
\* the header (awaited with the match token SEND OK), and ends with one bare
\* read through the inbound framer; when the connecting step is decoded as
\* failure it ends with no length announcement and no header written.
C18_RequestStepsInOrder ==
    /\ []RequestWrites
    /\ [][RequestStep]_vars
    /\ [][RequestEnd]_vars

\* a request that ran to its read and returned hello world
C18_Witness ==
    /\ InRequest
    /\ op = "returned"
    /\ opStep = 4
    /\ Len(tx) = 3
    /\ opRet = Val(SubSeq(IpdHello, 8, Len(IpdHello)))

InResponse == "connId" \in DOMAIN opArgs

\* the writes of a response at each of its steps
ResponseWrites ==
    InResponse =>
        /\ opStep \in 1..3
        /\ Len(tx) = opStep
        /\ IsAnnounce(tx[1])
        /\ opStep >= 2 =>
              /\ Len(tx[2]) = 1
              /\ StartsWith(tx[2][1],
                            <<"H", "T", "T", "P", "/", "1", ".", "1", " ", "2", "0", "0", " ",
                                 "O", "K", CR, LF>>)
              /\ EndsWith(tx[2][1],
                          <<CR, LF, CR, LF>> \o opArgs.body)
        /\ opStep = 3 =>
              tx[3] = Written(<<"A", "T", "+", "C", "I", "P", "C", "L", "O", "S", "E">>)

\* the raw write is made once the announcement has returned and starts no
\* transaction; the close transaction starts after the raw write
ResponseStep ==
    (InResponse /\ tx' # tx) =>
        /\ Len(tx') = Len(tx) + 1
        /\ Len(tx) = 1 =>
              /\ pc = "done"
              /\ <<pc', acc', ticks', result', ok'>>
                    = <<pc, acc, ticks, result, ok>>
        /\ Len(tx) = 2 => (pc = "done" /\ pc' = "loop")

\* C19: the HTTP server responder performs, in this order and each exactly
\* once, a length-announcement transaction, one raw write of the preamble
\* followed by the body directly to the transport, and a close-connection
\* transaction; the raw write happens only after the announcement has
\* returned and the close is issued only after the raw write.
C19_ResponderOrder ==
    /\ []ResponseWrites
    /\ [][ResponseStep]_vars

\* a response that ran to the end of its close transaction
C19_Witness ==
    /\ InResponse
    /\ op = "returned"
    /\ Len(tx) = 3
    /\ opArgs.body # <<>>

-----------------------------------------------------------------------------
(* Properties of the line reader within a transaction *)

HasNewline(b) == \E i \in 1..Len(b) : b[i] = LF

\* a buffer readline may return: a run that ends at the first newline read,
\* or bytes without a newline (the deadline expired first)
RunOrPartial(b) == \A i \in 1..(Len(b) - 1) : b[i] # LF

\* the buffers returned so far and the one being filled are well formed and
\* hold as many bytes as the call has taken from the transport
ReaderKeepsCount ==
    pc \in {"loop", "readline", "done"} =>
        /\ \A i \in 1..Len(linesRead) : RunOrPartial(linesRead[i])
        /\ ~HasNewline(data)
        /\ Len(Flatten(linesRead)) + Len(data) = consumed

\* a byte taken from the transport is added at the end of what the reader
\* holds or has returned; no other step of the call changes those bytes
ReaderKeepsBytes ==
    (pc \in {"loop", "readline"} /\ emitted' = emitted) =>
        Flatten(linesRead') \o data'
          = IF rx' # rx THEN Flatten(linesRead) \o data \o <<Head(rx)>>
            ELSE Flatten(linesRead) \o data

\* a non-empty buffer without newline is appended to the payload unless its
\* trimmed content is OK or the match token
PartialTreatedAsLine ==
    (/\ LineStep
     /\ Last(linesRead') # <<>>
     /\ ~HasNewline(Last(linesRead'))) =>
        IF \/ Rstrip(Last(linesRead')) = OK
           \/ Supplied(acc) /\ Rstrip(Last(linesRead')) = acc
        THEN result' = result
        ELSE result' = Append(result, Last(linesRead'))

\* C20: no byte taken from the transport during a transaction is discarded
\* by the line reader: each buffer it returns is a run ending in the first
\* newline read or the partial bytes read before its deadline, the buffers
\* returned concatenate to the bytes taken, and the engine treats a
\* non-empty partial buffer like any other line (appended to the payload
\* unless its trimmed content equals OK or the match token).
C20_NoByteDiscarded ==
    /\ []ReaderKeepsCount
    /\ [][ReaderKeepsBytes]_vars
    /\ [][PartialTreatedAsLine]_vars

-----------------------------------------------------------------------------
(* Properties of the attempt budget and of transactions in sequence *)

\* max(1, floor(deadlineMs / 100))
Budget(deadlineMs) ==
    LET f == deadlineMs \div 100 IN IF f > 1 THEN f ELSE 1

NonEmptyLines(ls) == SelectSeq(ls, LAMBDA l : l # <<>>)

\* the lines a transaction has read, and those it returns, fit its budget
BudgetBoundsLines ==
    op = "exec" =>
        /\ Len(NonEmptyLines(linesRead)) <= Budget(opArgs.timeout)
        /\ Len(result) <= Budget(opArgs.timeout)
        /\ pc \in {"loop", "readline"} =>
               ticks + Len(NonEmptyLines(linesRead)) <= Budget(opArgs.timeout)

\* a transaction starts with the whole budget
BudgetAtStart ==
    calls' = calls + 1 => ticks' = Budget(opArgs'.timeout)

\* a sleep, and a non-empty line after which the loop goes on, cost one attempt
AttemptConsumed ==
    (/\ emitted' = emitted
     /\ pc' = "loop"
     /\ \/ pc = "loop"
        \/ /\ pc = "readline"
           /\ Len(linesRead') = Len(linesRead) + 1
           /\ linesRead'[Len(linesRead')] # <<>>)
    => ticks' = ticks - 1

\* C21: the attempt budget of a transaction is max(1, floor(deadlineMs / 100));
\* every sleep and every non-empty line read costs one attempt, so the
\* transaction reads and returns at most that many lines, and a line past the
\* budget stays unread even when it is already pending.
C21_BudgetBoundsLinesRead ==
    /\ []BudgetBoundsLines
    /\ [][BudgetAtStart]_vars
    /\ [][AttemptConsumed]_vars

\* budget 1: the payload line is returned, the OK line behind it stays pending
C21_Witness ==
    /\ op = "exec"
    /\ pc = "done"
    /\ opArgs.timeout = 50
    /\ opArgs.pending = PayloadLine \o OkLine
    /\ result = <<PayloadLine>>
    /\ ~ok
    /\ rx = OkLine

\* the bytes this call has taken so far, then those still in the buffer
Stream == Flatten(linesRead) \o data \o rx

\* the bytes pending at the start are the first the call reads
PendingReadFirst ==
    op = "exec" => StartsWith(Stream, opArgs.pending)

\* success and payload depend on the buffers read alone, whenever they came
ClassifiedAlike ==
    op = "exec" =>
        /\ ok = (\E i \in 1..Len(linesRead) :
                    linesRead[i] # <<>> /\ Rstrip(linesRead[i]) = OK)
        /\ result = SelectSeq(NonEmptyLines(linesRead),
                              LAMBDA l : ~ (acc # NoToken /\ Rstrip(l) = acc))
        /\ (result # <<>> /\ opArgs.pending # <<>>) =>
               \/ StartsWith(opArgs.pending, Head(result))
               \/ StartsWith(Head(result), opArgs.pending)

\* starting a call writes the command and leaves the receive buffer alone
StartKeepsPending ==
    calls' = calls + 1 =>
        /\ rx' = rx
        /\ Len(tx') = Len(tx) + 1

\* C22: _exec does not drain the UART before it writes: what an earlier
\* transaction left pending is the first thing the next one reads, and it is
\* classified like anything that arrives later: a pending OK line sets the
\* success flag, pending payload lines head the result.
C22_PendingLinesReadByNext ==
    /\ []PendingReadFirst
    /\ []ClassifiedAlike
    /\ [][StartKeepsPending]_vars

\* the second call finds a payload line and an OK line left over, and nothing
\* arrives after its command
C22_Witness ==
    /\ op = "exec"
    /\ calls = 2
    /\ pc = "done"
    /\ acc = NoToken
    /\ emitted = 2
    /\ opArgs.pending = PayloadLine \o OkLine
    /\ result = <<PayloadLine, OkLine>>
    /\ ok

-----------------------------------------------------------------------------
(* Properties of the announced byte counts *)

\* the number of bytes a write puts on the UART
WriteLen(w) == IF Len(w) = 3 THEN Len(w[1]) + 2 ELSE Len(w[1])

\* the count in AT+CIPSEND=<count> or AT+CIPSEND=<id>,<count>
Announced(w) ==
    LET t == w[1]
        n == Find(t, COMMA)
        from == IF n < 0 THEN Find(t, <<"=">>) + 1 ELSE n + 1
    IN  IntOf(PySlice(t, from, Len(t))).val

\* C23: in both send paths the byte count announced in AT+CIPSEND equals the
\* number of bytes the following write puts on the UART: preamble plus body
\* in sendResponse, the header with the CR LF that _exec appends in
\* httpRequest.
C23_AnnouncedEqualsWritten ==
    /\ (InResponse /\ Len(tx) >= 2) => Announced(tx[1]) = WriteLen(tx[2])
    /\ (InRequest /\ Len(tx) >= 3) => Announced(tx[2]) = WriteLen(tx[3])

====
